---- MODULE Spec2Model ----
(***************************************************************************)
(* Model of the metrics engine of the royalty-market monitor               *)
(* (src/src/calculator/metrics_engine.py) and of the configuration it      *)
(* reads (src/config/settings.py).                                         *)
(*                                                                         *)
(* Python values are modelled as records [t, n, d, s]:                     *)
(*   t = "num"  : the number n/d (d > 0, lowest terms); arithmetic is      *)
(*                exact rational arithmetic, so binary floating-point      *)
(*                representation error is outside the model;               *)
(*   t = "none" : None;                                                    *)
(*   t = "str"  : a string; s is its text, and when s = DATE_FORMAT the    *)
(*                string is a timestamp in that format denoting minute n;  *)
(*   t = "exc"  : a raised exception of class s, propagated by the         *)
(*                operators below the way Python propagates it.            *)
(* An order (a Python dict) is a function from its keys to values.         *)
(* The order_type / order_status / signal literals of the source are       *)
(* Korean strings; the model uses the English names of the specification:  *)
(*   구매 Buy, 판매 Sell, 대기 Waiting, 완료 Completed,                    *)
(*   저평가 Undervalued, 고평가 Overvalued, 유동성↑ HighLiquidity,         *)
(*   유동성↓ LowLiquidity, 주의 Caution, 보통 Normal.                      *)
(***************************************************************************)
EXTENDS Integers, Sequences, FiniteSets, TLC

VARIABLES
    engine,      \* the MetricsEngine instance: its attributes
    call,        \* the last direct call of an engine method: op, args, ret
    orders,      \* the order list handed to calculate_batch_metrics
    now,         \* datetime.now(), in minutes
    ticks,       \* how often the clock has advanced
    pc,          \* position of the batch run: "idle", "loop", "done"
    results,     \* the list calculate_batch_metrics is building / has returned
    nowLog,      \* the clock value read for each record of the current run
    run,         \* number of batch runs started on this engine
    prevResults, \* what the previous batch run returned
    prevNowLog,  \* the clock values the previous batch run read
    cpc,         \* position of get_validated_orders in the API client
    attempt,     \* the loop variable of fetch_orders_with_retry
    fetchLog,    \* what the fetch_orders calls of this run returned, in order
    slept,       \* seconds this run has spent in time.sleep
    fetched,     \* what fetch_orders_with_retry returned
    validated,   \* what get_validated_orders returned (or raised)
    daily_orders,  \* DataCollector.daily_orders: order_no -> order
    collected,     \* the order lists accumulated since the last daily reset
    summaries,     \* the daily summary files: day -> orders written
    today,         \* DataCollector.today, as a day number
    alert_history, \* AlertSystem.alert_history: key -> time of the last alert
    alerts,        \* what the last check_alerts call returned
    emitted        \* (order_no, type) -> the times of the alerts returned

clientVars == <<cpc, attempt, fetchLog, slept, fetched, validated>>

collectorVars == <<daily_orders, collected, summaries, today>>

alertVars == <<alert_history, alerts, emitted>>

otherVars == <<clientVars, collectorVars, alertVars>>

vars == <<engine, call, orders, now, ticks, pc, results, nowLog, run,
          prevResults, prevNowLog, otherVars>>

batchVars == <<orders, now, ticks, pc, results, nowLog, run, prevResults,
               prevNowLog>>

----------------------------------------------------------------------------
(* Python values *)

Abs(x) == IF x < 0 THEN -x ELSE x

RECURSIVE Gcd(_, _)
Gcd(a, b) == IF b = 0 THEN a ELSE Gcd(b, a % b)

Num(n, d) ==
    LET g == Gcd(Abs(n), Abs(d))
        sg == IF d < 0 THEN -1 ELSE 1
    IN  [t |-> "num", n |-> sg * (n \div g), d |-> sg * (d \div g), s |-> ""]

IntV(n) == [t |-> "num", n |-> n, d |-> 1, s |-> ""]

NoneV == [t |-> "none", n |-> 0, d |-> 1, s |-> ""]

Str(s) == [t |-> "str", n |-> 0, d |-> 1, s |-> s]

Exc(cls) == [t |-> "exc", n |-> 0, d |-> 1, s |-> cls]

DATE_FORMAT == "%Y-%m-%d %H:%M:%S"

DateStr(m) == [t |-> "str", n |-> m, d |-> 1, s |-> DATE_FORMAT]

IsNum(v) == v.t = "num"
IsNone(v) == v.t = "none"
IsStr(v) == v.t = "str"
IsExc(v) == v.t = "exc"

\* bool(v)
Truthy(v) ==
    CASE v.t = "num" -> v.n # 0
      [] v.t = "str" -> v.s # ""
      [] OTHER -> FALSE

\* a == b
PyEq(a, b) == a = b

\* comparisons of two numbers
NumLt(a, b) == a.n * b.d < b.n * a.d
NumLe(a, b) == a.n * b.d <= b.n * a.d

\* a - b
PySub(a, b) ==
    IF IsExc(a) THEN a
    ELSE IF IsExc(b) THEN b
    ELSE IF IsNum(a) /\ IsNum(b) THEN Num(a.n * b.d - b.n * a.d, a.d * b.d)
    ELSE Exc("TypeError")

\* a + b (numbers only; the engine never adds strings)
PyAdd(a, b) ==
    IF IsExc(a) THEN a
    ELSE IF IsExc(b) THEN b
    ELSE IF IsNum(a) /\ IsNum(b) THEN Num(a.n * b.d + b.n * a.d, a.d * b.d)
    ELSE Exc("TypeError")

\* a * b; str * int is string repetition
PyMul(a, b) ==
    IF IsExc(a) THEN a
    ELSE IF IsExc(b) THEN b
    ELSE IF IsNum(a) /\ IsNum(b) THEN Num(a.n * b.n, a.d * b.d)
    ELSE IF IsStr(a) /\ IsNum(b) /\ b.d = 1
         THEN Str(IF b.n <= 0 THEN "" ELSE a.s)
    ELSE IF IsNum(a) /\ a.d = 1 /\ IsStr(b)
         THEN Str(IF a.n <= 0 THEN "" ELSE b.s)
    ELSE Exc("TypeError")

\* a / b
PyDiv(a, b) ==
    IF IsExc(a) THEN a
    ELSE IF IsExc(b) THEN b
    ELSE IF IsNum(a) /\ IsNum(b)
         THEN IF b.n = 0 THEN Exc("ZeroDivisionError")
              ELSE Num(a.n * b.d, a.d * b.n)
    ELSE Exc("TypeError")

Pow10(k) == IF k = 0 THEN 1 ELSE IF k = 1 THEN 10 ELSE 100

\* n/d (d > 0) rounded to the nearest integer, ties to the even one
RoundHalfEven(n, d) ==
    LET q == n \div d
        r == n % d
    IN  IF 2 * r < d THEN q
        ELSE IF 2 * r > d THEN q + 1
        ELSE IF q % 2 = 0 THEN q ELSE q + 1

\* round(x, k)
PyRound(x, k) ==
    IF IsExc(x) THEN x
    ELSE IF IsNum(x) THEN Num(RoundHalfEven(x.n * Pow10(k), x.d), Pow10(k))
    ELSE Exc("TypeError")

\* the value of a try block whose except clause catches the classes in
\* caught and returns fallback
TryExcept(v, caught, fallback) ==
    IF IsExc(v) /\ v.s \in caught THEN fallback ELSE v

----------------------------------------------------------------------------
(* config/settings.py *)

PREMIUM_THRESHOLD_HIGH == IntV(10)
PREMIUM_THRESHOLD_LOW == IntV(-10)
LIQUIDITY_HIGH_SCORE == IntV(80)
LIQUIDITY_LOW_SCORE == IntV(30)
REFERENCE_PRICE == IntV(10000)

----------------------------------------------------------------------------
(* MetricsEngine *)

\* MetricsEngine.__init__
NewEngine == [reference_price |-> REFERENCE_PRICE]

\* calculate_spread_rate dividing by the order price instead of the recent price
calculate_spread_rate_ByOrderPrice(self, order_price, recent_price) ==
    IF PyEq(order_price, IntV(0)) THEN NoneV
    ELSE TryExcept(
            PyRound(PyMul(PyDiv(PySub(order_price, recent_price),
                                order_price), IntV(100)), 2),
            {"TypeError", "ZeroDivisionError"}, NoneV)

calculate_spread_rate(self, order_price, recent_price) ==
    IF PyEq(recent_price, IntV(0)) THEN NoneV
    ELSE TryExcept(
            PyRound(PyMul(PyDiv(PySub(order_price, recent_price),
                                recent_price), IntV(100)), 2),
            {"TypeError", "ZeroDivisionError"}, NoneV)

\* calculate_expected_yield without the conversion to percent
calculate_expected_yield_NoPercent(self, order_royalty_rate, order_price, reference_price) ==
    IF PyEq(order_price, IntV(0)) THEN NoneV
    ELSE LET ref_price == IF Truthy(reference_price) THEN reference_price
                          ELSE self.reference_price
         IN  TryExcept(
                PyRound(PyDiv(PyMul(order_royalty_rate, ref_price), order_price), 2),
                {"TypeError", "ZeroDivisionError"}, NoneV)

\* reference_price = NoneV is the call without the optional argument
calculate_expected_yield(self, order_royalty_rate, order_price, reference_price) ==
    IF PyEq(order_price, IntV(0)) THEN NoneV
    ELSE LET ref_price == IF Truthy(reference_price) THEN reference_price
                          ELSE self.reference_price
         IN  TryExcept(
                PyRound(PyMul(PyDiv(PyMul(order_royalty_rate, ref_price),
                                    order_price), IntV(100)), 2),
                {"TypeError", "ZeroDivisionError"}, NoneV)

calculate_fair_value(self, order_royalty_rate, reference_price) ==
    LET ref_price == IF Truthy(reference_price) THEN reference_price
                     ELSE self.reference_price
    IN  PyMul(order_royalty_rate, ref_price)


RECURSIVE Join(_)
\* ", ".join(tags)
Join(tags) ==
    IF Len(tags) = 0 THEN ""
    ELSE IF Len(tags) = 1 THEN tags[1]
    ELSE tags[1] \o ", " \o Join(Tail(tags))

\* the tag the spread rate adds to signals (lines 321-325)
ValuationTags(spread_rate) ==
    IF IsNone(spread_rate) THEN << >>
    ELSE IF NumLt(spread_rate, PREMIUM_THRESHOLD_LOW) THEN <<"Undervalued">>
    ELSE IF NumLt(PREMIUM_THRESHOLD_HIGH, spread_rate) THEN <<"Overvalued">>
    ELSE << >>

\* LiquidityTags with the two thresholds exchanged
LiquidityTags_Swapped(liquidity_score) ==
    IF NumLt(LIQUIDITY_LOW_SCORE, liquidity_score) THEN <<"HighLiquidity">>
    ELSE IF NumLt(liquidity_score, LIQUIDITY_HIGH_SCORE) THEN <<"LowLiquidity">>
    ELSE << >>

\* the tag the liquidity score adds to signals (lines 328-331)
LiquidityTags(liquidity_score) ==
    IF NumLt(LIQUIDITY_HIGH_SCORE, liquidity_score) THEN <<"HighLiquidity">>
    ELSE IF NumLt(liquidity_score, LIQUIDITY_LOW_SCORE) THEN <<"LowLiquidity">>
    ELSE << >>

\* generate_signal without the Caution override
generate_signal_NoOverride(self, spread_rate, liquidity_score) ==
    IF ~IsNone(spread_rate) /\ ~IsNum(spread_rate) THEN Exc("TypeError")
    ELSE IF ~IsNum(liquidity_score) THEN Exc("TypeError")
    ELSE LET signals == ValuationTags(spread_rate) \o LiquidityTags(liquidity_score)
         IN  IF Len(signals) > 0 THEN Str(Join(signals)) ELSE Str("Normal")

\* The method has no try block: comparing a str or None with a float raises
\* TypeError, which leaves the method.
generate_signal(self, spread_rate, liquidity_score) ==
    IF ~IsNone(spread_rate) /\ ~IsNum(spread_rate) THEN Exc("TypeError")
    ELSE IF ~IsNum(liquidity_score) THEN Exc("TypeError")
    ELSE LET signals == ValuationTags(spread_rate) \o LiquidityTags(liquidity_score)
             is_overvalued == \E i \in 1..Len(signals) : signals[i] = "Overvalued"
         IN  IF is_overvalued /\ NumLt(liquidity_score, LIQUIDITY_LOW_SCORE)
             THEN Str("Caution")
             ELSE IF Len(signals) > 0 THEN Str(Join(signals))
             ELSE Str("Normal")

----------------------------------------------------------------------------
(* dicts and lists *)

\* a list element that is a dict (anything else has no .get)
IsDict(o) == "t" \notin DOMAIN o

\* o.get(k): None when the key is absent
Get(o, k) == IF k \in DOMAIN o THEN o[k] ELSE NoneV

\* o.get(k, default) and helpers.safe_get(o, k, default)
safe_get(o, k, default) == IF k \in DOMAIN o THEN o[k] ELSE default

\* float('inf')
Inf == [t |-> "num", n |-> 1, d |-> 0, s |-> ""]

\* max(vs) / min(vs) of a non-empty list: comparing a number with a str or
\* None raises TypeError.  For a list of strings only an element is returned
\* without ordering them: every use the engine makes of the result then
\* raises TypeError whichever string it is.
PyMax(vs) ==
    IF Len(vs) = 1 THEN vs[1]
    ELSE IF \A i \in 1..Len(vs) : IsNum(vs[i])
         THEN vs[CHOOSE i \in 1..Len(vs) : \A j \in 1..Len(vs) : NumLe(vs[j], vs[i])]
    ELSE IF \A i \in 1..Len(vs) : IsStr(vs[i]) THEN vs[1]
    ELSE Exc("TypeError")

PyMin(vs) ==
    IF Len(vs) = 1 THEN vs[1]
    ELSE IF \A i \in 1..Len(vs) : IsNum(vs[i])
         THEN vs[CHOOSE i \in 1..Len(vs) : \A j \in 1..Len(vs) : NumLe(vs[i], vs[j])]
    ELSE IF \A i \in 1..Len(vs) : IsStr(vs[i]) THEN vs[1]
    ELSE Exc("TypeError")

\* max(0.0, min(100.0, score))
Clamp(score) ==
    IF NumLt(score, IntV(0)) THEN IntV(0)
    ELSE IF NumLt(IntV(100), score) THEN IntV(100)
    ELSE score


----------------------------------------------------------------------------
(* liquidity score *)

\* [o.get(k, default) for o in os]
Column(os, k, default) == [i \in 1..Len(os) |-> safe_get(os[i], k, default)]

\* the mapping without its last branch (score = 0.0 above 20) and clamp
SpreadPieces_NoFloor(spread_rate) ==
    IF NumLe(spread_rate, IntV(0)) THEN IntV(100)
    ELSE IF NumLe(spread_rate, IntV(5))
         THEN PySub(IntV(100), PyMul(spread_rate, IntV(5)))
    ELSE IF NumLe(spread_rate, IntV(10))
         THEN PySub(IntV(75), PyMul(PySub(spread_rate, IntV(5)), IntV(5)))
    ELSE PySub(IntV(50), PyMul(PySub(spread_rate, IntV(10)), IntV(5)))

\* the mapping with its middle piece starting from 70 instead of 75
SpreadPieces_From70(spread_rate) ==
    Clamp(IF NumLe(spread_rate, IntV(0)) THEN IntV(100)
          ELSE IF NumLe(spread_rate, IntV(5))
               THEN PySub(IntV(100), PyMul(spread_rate, IntV(5)))
          ELSE IF NumLe(spread_rate, IntV(10))
               THEN PySub(IntV(70), PyMul(PySub(spread_rate, IntV(5)), IntV(5)))
          ELSE IF NumLe(spread_rate, IntV(20))
               THEN PySub(IntV(50), PyMul(PySub(spread_rate, IntV(10)), IntV(5)))
          ELSE IntV(0))

\* the piecewise mapping of lines 168-179
SpreadPieces(spread_rate) ==
    Clamp(IF NumLe(spread_rate, IntV(0)) THEN IntV(100)
          ELSE IF NumLe(spread_rate, IntV(5))
               THEN PySub(IntV(100), PyMul(spread_rate, IntV(5)))
          ELSE IF NumLe(spread_rate, IntV(10))
               THEN PySub(IntV(75), PyMul(PySub(spread_rate, IntV(5)), IntV(5)))
          ELSE IF NumLe(spread_rate, IntV(20))
               THEN PySub(IntV(50), PyMul(PySub(spread_rate, IntV(10)), IntV(5)))
          ELSE IntV(0))

\* the spread score giving 0 instead of 50 when a side of the book is empty
_calculate_spread_score_EmptySideZero(self, song_orders) ==
    LET IsBuy(o) == /\ PyEq(Get(o, "order_type"), Str("Buy"))
                    /\ PyEq(Get(o, "order_status"), Str("Waiting"))
        IsSell(o) == /\ PyEq(Get(o, "order_type"), Str("Sell"))
                     /\ PyEq(Get(o, "order_status"), Str("Waiting"))
        buy_orders == SelectSeq(song_orders, IsBuy)
        sell_orders == SelectSeq(song_orders, IsSell)
    IN  IF Len(buy_orders) = 0 \/ Len(sell_orders) = 0 THEN IntV(0)
        ELSE LET max_buy_price == PyMax(Column(buy_orders, "order_price", IntV(0)))
                 min_sell_price == PyMin(Column(sell_orders, "order_price", Inf))
             IN  IF IsExc(max_buy_price) \/ IsExc(min_sell_price) THEN IntV(50)
                 ELSE IF PyEq(min_sell_price, Inf) \/ PyEq(max_buy_price, IntV(0))
                      THEN IntV(50)
                 ELSE LET spread_rate ==
                              PyMul(PyDiv(PySub(min_sell_price, max_buy_price),
                                          max_buy_price), IntV(100))
                      IN  IF IsExc(spread_rate) THEN IntV(50)
                          ELSE SpreadPieces(spread_rate)

_calculate_spread_score(self, song_orders) ==
    LET IsBuy(o) == /\ PyEq(Get(o, "order_type"), Str("Buy"))
                    /\ PyEq(Get(o, "order_status"), Str("Waiting"))
        IsSell(o) == /\ PyEq(Get(o, "order_type"), Str("Sell"))
                     /\ PyEq(Get(o, "order_status"), Str("Waiting"))
        buy_orders == SelectSeq(song_orders, IsBuy)
        sell_orders == SelectSeq(song_orders, IsSell)
    IN  IF Len(buy_orders) = 0 \/ Len(sell_orders) = 0 THEN IntV(50)
        ELSE LET max_buy_price == PyMax(Column(buy_orders, "order_price", IntV(0)))
                 min_sell_price == PyMin(Column(sell_orders, "order_price", Inf))
             IN  IF IsExc(max_buy_price) \/ IsExc(min_sell_price) THEN IntV(50)
                 ELSE IF PyEq(min_sell_price, Inf) \/ PyEq(max_buy_price, IntV(0))
                      THEN IntV(50)
                 ELSE LET spread_rate ==
                              PyMul(PyDiv(PySub(min_sell_price, max_buy_price),
                                          max_buy_price), IntV(100))
                      IN  IF IsExc(spread_rate) THEN IntV(50)
                          ELSE SpreadPieces(spread_rate)

\* the piecewise mapping of lines 208-219
DepthPieces(waiting_count) ==
    Clamp(IF waiting_count = 0 THEN IntV(0)
          ELSE IF waiting_count <= 5 THEN IntV(waiting_count * 10)
          ELSE IF waiting_count <= 10 THEN IntV(50 + (waiting_count - 5) * 5)
          ELSE IF waiting_count <= 20
               THEN PyAdd(IntV(75), PyMul(IntV(waiting_count - 10), Num(25, 10)))
          ELSE IntV(100))

\* the depth score counting the orders of every status
_calculate_depth_score_AllOrders(self, song_orders) ==
    DepthPieces(Len(song_orders))

_calculate_depth_score(self, song_orders) ==
    LET IsWaiting(o) == PyEq(Get(o, "order_status"), Str("Waiting"))
        waiting_orders == SelectSeq(song_orders, IsWaiting)
    IN  DepthPieces(Len(waiting_orders))

\* datetime.strptime(v, "%Y-%m-%d %H:%M:%S"): the minute the string denotes,
\* ValueError for a string in another format, TypeError for a non-string
strptime(v) ==
    IF ~IsStr(v) THEN Exc("TypeError")
    ELSE IF v.s = DATE_FORMAT THEN IntV(v.n)
    ELSE Exc("ValueError")

\* timedelta(minutes=30) of line 239
RecentMinutes == 30

\* the piecewise mapping of lines 256-265
FrequencyPieces(recent_count) ==
    Clamp(IF recent_count = 0 THEN IntV(0)
          ELSE IF recent_count <= 3 THEN PyMul(IntV(recent_count), Num(167, 10))
          ELSE IF recent_count <= 10
               THEN PyAdd(IntV(50), PyMul(IntV(recent_count - 3), Num(71, 10)))
          ELSE IntV(100))

\* the frequency score giving 0 instead of 50 when the loop raises
_calculate_frequency_score_FailsToZero(self, song_orders, clock) ==
    LET recent_threshold == clock - RecentMinutes
        Parses(o) == Truthy(Get(o, "order_date"))
        Breaks(o) == Parses(o) /\ strptime(Get(o, "order_date")).s = "TypeError"
        IsRecent(o) == /\ Parses(o)
                       /\ IsNum(strptime(Get(o, "order_date")))
                       /\ strptime(Get(o, "order_date")).n >= recent_threshold
        recent_orders == SelectSeq(song_orders, IsRecent)
    IN  IF \E i \in 1..Len(song_orders) : Breaks(song_orders[i]) THEN IntV(0)
        ELSE FrequencyPieces(Len(recent_orders))

\* clock is the value datetime.now() returns (line 238)
_calculate_frequency_score(self, song_orders, clock) ==
    LET recent_threshold == clock - RecentMinutes
        \* the loop body reaches strptime for this order
        Parses(o) == Truthy(Get(o, "order_date"))
        \* strptime raises something other than ValueError
        Breaks(o) == Parses(o) /\ strptime(Get(o, "order_date")).s = "TypeError"
        IsRecent(o) == /\ Parses(o)
                       /\ IsNum(strptime(Get(o, "order_date")))
                       /\ strptime(Get(o, "order_date")).n >= recent_threshold
        recent_orders == SelectSeq(song_orders, IsRecent)
    IN  IF \E i \in 1..Len(song_orders) : Breaks(song_orders[i]) THEN IntV(50)
        ELSE FrequencyPieces(Len(recent_orders))

\* the weighted average of lines 118-124
WeightedTotal(spread_score, depth_score, frequency_score) ==
    PyRound(PyAdd(PyAdd(PyMul(spread_score, Num(4, 10)),
                        PyMul(depth_score, Num(3, 10))),
                  PyMul(frequency_score, Num(3, 10))), 1)

\* the list taken as it is, without the filter of line 103
SongOrders_NoFilter(all_orders, song_name) == all_orders

\* [o for o in orders if o.get("song_name") == song_name] (line 103), for a
\* list of dicts
SongOrders(all_orders, song_name) ==
    LET IsSong(o) == PyEq(Get(o, "song_name"), song_name)
    IN  SelectSeq(all_orders, IsSong)

\* calculate_liquidity_score without the early return of lines 105-106
calculate_liquidity_score_NoEmptyCheck(self, all_orders, song_name, clock) ==
    IF \E i \in 1..Len(all_orders) : ~IsDict(all_orders[i]) THEN IntV(0)
    ELSE LET song_orders == SongOrders(all_orders, song_name)
         IN  WeightedTotal(_calculate_spread_score(self, song_orders),
                           _calculate_depth_score(self, song_orders),
                           _calculate_frequency_score(self, song_orders, clock))

\* A list element without .get raises AttributeError in the filter, which
\* the except clause of line 126 turns into 0.0.
calculate_liquidity_score(self, all_orders, song_name, clock) ==
    IF \E i \in 1..Len(all_orders) : ~IsDict(all_orders[i]) THEN IntV(0)
    ELSE LET song_orders == SongOrders(all_orders, song_name)
         IN  IF Len(song_orders) = 0 THEN IntV(0)
             ELSE WeightedTotal(_calculate_spread_score(self, song_orders),
                                _calculate_depth_score(self, song_orders),
                                _calculate_frequency_score(self, song_orders, clock))


----------------------------------------------------------------------------
(* per-order and batch enrichment *)

\* the keys result.update() writes (lines 375-381)
MetricKeys == {"spread_rate", "expected_yield", "liquidity_score",
               "fair_value", "signal"}

\* the result built from an empty dict instead of a copy of the order
Enriched_MetricsOnly(order, spread_rate, expected_yield, liquidity_score, fair_value, signal) ==
    [k \in MetricKeys |->
        CASE k = "spread_rate" -> spread_rate
          [] k = "expected_yield" -> expected_yield
          [] k = "liquidity_score" -> liquidity_score
          [] k = "fair_value" -> fair_value
          [] OTHER -> signal]

\* result.update() leaving out the metrics whose value is None
Enriched_SkipsNone(order, spread_rate, expected_yield, liquidity_score, fair_value, signal) ==
    LET value(k) == CASE k = "spread_rate" -> spread_rate
                      [] k = "expected_yield" -> expected_yield
                      [] k = "liquidity_score" -> liquidity_score
                      [] k = "fair_value" -> fair_value
                      [] OTHER -> signal
    IN  [k \in DOMAIN order \cup {m \in MetricKeys : ~IsNone(value(m))} |->
            IF k \in MetricKeys THEN value(k) ELSE order[k]]

\* result = order.copy(); result.update({...})
Enriched(order, spread_rate, expected_yield, liquidity_score, fair_value, signal) ==
    [k \in DOMAIN order \cup MetricKeys |->
        CASE k = "spread_rate" -> spread_rate
          [] k = "expected_yield" -> expected_yield
          [] k = "liquidity_score" -> liquidity_score
          [] k = "fair_value" -> fair_value
          [] k = "signal" -> signal
          [] OTHER -> order[k]]

\* calculate_order_metrics taking the order alone as the liquidity context
calculate_order_metrics_Alone(self, order, all_orders, clock) ==
    IF ~IsDict(order) THEN order
    ELSE LET order_price == safe_get(order, "order_price", IntV(0))
             recent_price == safe_get(order, "recent_price", IntV(0))
             order_royalty_rate == safe_get(order, "order_royalty_rate", IntV(0))
             song_name == safe_get(order, "song_name", Str(""))
             spread_rate == calculate_spread_rate(self, order_price, recent_price)
             expected_yield ==
                 calculate_expected_yield(self, order_royalty_rate, order_price, NoneV)
             liquidity_score ==
                 calculate_liquidity_score(self, <<order>>, song_name, clock)
             fair_value == calculate_fair_value(self, order_royalty_rate, NoneV)
             signal == generate_signal(self, spread_rate, liquidity_score)
         IN  IF IsExc(spread_rate) \/ IsExc(expected_yield) \/ IsExc(fair_value)
                \/ IsExc(signal)
             THEN order
             ELSE Enriched(order, spread_rate, expected_yield, liquidity_score,
                           fair_value, signal)

\* Every exception raised inside the try block is caught by the except
\* clause of line 385, which returns the order object itself.
calculate_order_metrics(self, order, all_orders, clock) ==
    IF ~IsDict(order) THEN order
    ELSE LET order_price == safe_get(order, "order_price", IntV(0))
             recent_price == safe_get(order, "recent_price", IntV(0))
             order_royalty_rate == safe_get(order, "order_royalty_rate", IntV(0))
             song_name == safe_get(order, "song_name", Str(""))
             spread_rate == calculate_spread_rate(self, order_price, recent_price)
             expected_yield ==
                 calculate_expected_yield(self, order_royalty_rate, order_price, NoneV)
             liquidity_score ==
                 calculate_liquidity_score(self, all_orders, song_name, clock)
             fair_value == calculate_fair_value(self, order_royalty_rate, NoneV)
             signal == generate_signal(self, spread_rate, liquidity_score)
         IN  IF IsExc(spread_rate) \/ IsExc(expected_yield) \/ IsExc(fair_value)
                \/ IsExc(signal)
             THEN order
             ELSE Enriched(order, spread_rate, expected_yield, liquidity_score,
                           fair_value, signal)

\* the metrics written into the order itself instead of a copy
InputAfterOrder_InPlace(all_orders, i, result) == [all_orders EXCEPT ![i] = result]

\* The caller's list after calculate_order_metrics has handled element i:
\* update() is applied to order.copy() (lines 373-374) and the loop appends
\* to its own list (line 500), so no element and no position changes.
InputAfterOrder(all_orders, i, result) == all_orders

\* calculate_order_metrics keeping the order's price as the engine's
\* reference price
EngineAfterOrder_KeepsPrice(self, order) ==
    IF IsDict(order)
    THEN [self EXCEPT !.reference_price = safe_get(order, "order_price", IntV(0))]
    ELSE self

\* The engine's attributes after calculate_order_metrics: no method of the
\* class assigns to self after __init__.
EngineAfterOrder(self, order) == self


----------------------------------------------------------------------------
(* data validation (src/utils/validators.py) *)

\* a Python list as a value that can stand where None can
ListV(l) == [t |-> "list", items |-> l]
IsList(v) == v.t = "list"

REQUIRED_FIELDS ==
    {"order_no", "song_name", "song_artist", "song_category", "order_type",
     "order_price", "order_count", "order_status", "order_royalty_rate",
     "order_date", "recent_price"}

\* FIELD_TYPES: the fields declared str and those declared (int, float)
StrFields ==
    {"order_no", "song_name", "song_artist", "song_category", "order_type",
     "order_status", "order_date", "url_link"}
NumFields ==
    {"order_price", "order_count", "leaves_count", "order_royalty_rate",
     "recent_price"}

VALID_ORDER_TYPES == {Str("Buy"), Str("Sell")}
VALID_ORDER_STATUS ==
    {Str("Waiting"), Str("Completed"), Str("Cancelled"), Str("Matched")}

\* "f in order and order[f] is not None"
Present(order, f) == f \in DOMAIN order /\ ~IsNone(order[f])

\* The statements of validate_order that raise: the comparisons of lines 75
\* and 79 for a value that is no number (str <= int is a TypeError) and
\* strptime of line 92 for a truthy value that is no string (only ValueError
\* is caught).
RaisesInValidation(order) ==
    \/ Present(order, "order_price") /\ ~IsNum(order["order_price"])
    \/ Present(order, "order_royalty_rate") /\ ~IsNum(order["order_royalty_rate"])
    \/ /\ "order_date" \in DOMAIN order
       /\ Truthy(order["order_date"])
       /\ ~IsStr(order["order_date"])

\* lines 90-94
DateErrors(order) ==
    IF /\ "order_date" \in DOMAIN order
       /\ Truthy(order["order_date"])
       /\ IsExc(strptime(order["order_date"]))
    THEN {"date format"} ELSE {}

\* The messages validate_order appends to errors when no statement raises,
\* each reduced to its kind and field.
ValidationErrors(order) ==
    {"missing " \o f : f \in {g \in REQUIRED_FIELDS : ~Present(order, g)}}
    \cup {"type " \o f :
            f \in {g \in DOMAIN order \cap StrFields :
                      ~IsNone(order[g]) /\ ~IsStr(order[g])}}
    \cup {"type " \o f :
            f \in {g \in DOMAIN order \cap NumFields :
                      ~IsNone(order[g]) /\ ~IsNum(order[g])}}
    \cup (IF Present(order, "order_price") /\ NumLe(order["order_price"], IntV(0))
          THEN {"price not positive"} ELSE {})
    \cup (IF /\ Present(order, "order_royalty_rate")
             /\ NumLt(order["order_royalty_rate"], IntV(0))
          THEN {"royalty negative"} ELSE {})
    \cup (IF /\ "order_type" \in DOMAIN order
             /\ order["order_type"] \notin VALID_ORDER_TYPES
          THEN {"order type"} ELSE {})
    \cup (IF /\ "order_status" \in DOMAIN order
             /\ order["order_status"] \notin VALID_ORDER_STATUS
          THEN {"order status"} ELSE {})
    \cup DateErrors(order)

\* validate_order(order): the pair (len(errors) == 0, errors), or the
\* exception that leaves it.  A value without keys raises TypeError at
\* "field not in order" (line 63).
validate_order(order) ==
    IF ~IsDict(order) THEN Exc("TypeError")
    ELSE IF RaisesInValidation(order) THEN Exc("TypeError")
    ELSE [t |-> "tuple", ok |-> ValidationErrors(order) = {},
          errors |-> ValidationErrors(order)]

----------------------------------------------------------------------------
(* the API client (src/collector/api_client.py) *)

API_RETRY_COUNT == 3
API_RETRY_DELAY == 5

\* validate_orders(orders): the orders validate_order accepts, in order; an
\* exception raised for one order leaves the loop and the method (there is
\* no try block in lines 139-156).
validate_orders(os) ==
    IF \E i \in 1..Len(os) : IsExc(validate_order(os[i])) THEN Exc("TypeError")
    ELSE LET Accepted(o) == validate_order(o).ok
         IN  ListV(SelectSeq(os, Accepted))

\* fetch_orders_with_retry sleeping after every failed attempt
SleepsAfter_Always(i) == TRUE

\* "if attempt < API_RETRY_COUNT - 1" (line 122)
SleepsAfter(i) == i < API_RETRY_COUNT - 1

\* lines 171-177 of get_validated_orders, for the list fetched
ValidatedResult(data) ==
    LET validated_orders == validate_orders(data.items)
    IN  IF IsExc(validated_orders) THEN validated_orders
        ELSE IF Len(validated_orders.items) = 0 THEN NoneV
        ELSE validated_orders

----------------------------------------------------------------------------
(* bounds and input domains *)

MaxOrders == 2   \* longest order list of a batch run
MaxTicks == 1    \* clock advances during a behaviour
MaxRuns == 2     \* batch runs on one engine

\* an order dict of the feed
MkOrder(song, type, status, price, recent, royalty, date) ==
    [song_name |-> song, order_type |-> type, order_status |-> status,
     order_price |-> price, recent_price |-> recent,
     order_royalty_rate |-> royalty, order_date |-> date]

\* o without key k
Without(o, k) == [j \in DOMAIN o \ {k} |-> o[j]]

\* o with o[k] = v
With(o, k, v) == [j \in DOMAIN o \cup {k} |-> IF j = k THEN v ELSE o[j]]

\* The clock starts at minute RecentMinutes + 1: an order dated minute 1 is
\* then exactly 30 minutes old and one dated RecentMinutes + 2 lies in the
\* future; after one tick the former has left the window.
StartClock == RecentMinutes + 1
OldDate == DateStr(1)
NewDate == DateStr(RecentMinutes + 2)

\* well-formed waiting orders of two assets, placed at minute 1
MarketOrders ==
    {MkOrder(Str(song), Str(type), Str("Waiting"), IntV(price), IntV(10000),
             Num(8, 100), OldDate) :
        song \in {"A", "B"}, type \in {"Buy", "Sell"}, price \in {9000, 12000}}

BaseOrder ==
    MkOrder(Str("A"), Str("Buy"), Str("Waiting"), IntV(9000), IntV(10000),
            Num(8, 100), NewDate)

\* records that violate the feed's schema in one field, and a list element
\* that is no dict at all
OddOrders ==
    {Without(BaseOrder, "song_name"),
     With(BaseOrder, "order_royalty_rate", NoneV),
     With(BaseOrder, "order_royalty_rate", Str("abc")),
     With(BaseOrder, "recent_price", IntV(0)),
     NoneV}

BatchOrders == MarketOrders \cup OddOrders

\* the dicts of a list get their position as order_no
Numbered(l) ==
    [i \in 1..Len(l) |->
        IF IsDict(l[i]) THEN With(l[i], "order_no", IntV(i)) ELSE l[i]]

\* arguments of the direct calls
PriceArgs ==
    {IntV(0), IntV(-10000), IntV(9000), IntV(9999), IntV(10000), IntV(11000),
     IntV(13000), IntV(15000), IntV(20000), Num(1, 2), NoneV, Str("abc")}

RoyaltyArgs == {IntV(0), Num(8, 100), Num(5, 1000), IntV(-1), NoneV, Str("abc")}

\* reference prices passed explicitly
RefArgs == {IntV(0), IntV(5000), IntV(10000)}

SpreadArgs ==
    {NoneV, Str("abc"), IntV(-15), Num(-1001, 100), IntV(-10), Num(-999, 100),
     IntV(0), IntV(5), Num(999, 100), IntV(10), Num(1001, 100), IntV(15)}

ScoreArgs ==
    {NoneV, Str("abc"), IntV(0), IntV(25), Num(299, 10), IntV(30), Num(301, 10),
     IntV(50), IntV(80), Num(801, 10), IntV(85), IntV(100)}

\* n copies of o
Rep(o, n) == [i \in 1..n |-> o]

\* orders of the liquidity calls: any type, status and asset, prices that are
\* zero or no number, dates that are old, new, malformed or no string
LiqOrders ==
    {MkOrder(Str(song), Str(type), Str(status), price, IntV(10000), Num(8, 100),
             date) :
        song \in {"A", "B"}, type \in {"Buy", "Sell"},
        status \in {"Waiting", "Completed"},
        price \in {IntV(0), IntV(9000), IntV(9500), IntV(12000), Str("abc")},
        date \in {OldDate, NewDate, Str("bad"), IntV(5)}}

\* the order on the other side of the book
CounterOrders ==
    {MkOrder(Str("A"), Str(type), Str("Waiting"), IntV(price), IntV(10000),
             Num(8, 100), NewDate) :
        type \in {"Buy", "Sell"}, price \in {9000, 9500, 12000}} \cup {NoneV}

\* how often the first order of a list is repeated: the counts around the
\* breakpoints of the depth and frequency mappings
Copies == {1, 2, 3, 4, 5, 6, 10, 11, 20, 21}

\* orders of asset A that are not waiting, or carry no usable date
OtherOrders ==
    {With(BaseOrder, "order_status", Str("Cancelled")),
     With(BaseOrder, "order_status", Str("Matched")),
     Without(BaseOrder, "order_date"),
     With(BaseOrder, "order_date", Str("")),
     With(BaseOrder, "order_date", NoneV)}

\* what may follow the repeated order in a list
Tails == {<< >>} \cup {<<c>> : c \in CounterOrders \cup OtherOrders}

\* an order book of asset A: a waiting Buy at 10000 and a waiting Sell at 0,
\* 2.5, 5, 7.5, 10, 15, 20 and 21 per cent above it, or below it
BookSells == {9000, 10000, 10250, 10500, 10750, 11000, 11500, 12000, 12100}

\* orders next to the book that do not set its best prices: a completed
\* Sell below the best Sell, a lower waiting Buy, a higher waiting Sell and
\* a waiting Sell of asset B
BookExtras ==
    {<< >>,
     <<MkOrder(Str("A"), Str("Sell"), Str("Completed"), IntV(9000), IntV(10000),
               Num(8, 100), NewDate)>>,
     <<MkOrder(Str("A"), Str("Buy"), Str("Waiting"), IntV(9500), IntV(10000),
               Num(8, 100), NewDate)>>,
     <<MkOrder(Str("A"), Str("Sell"), Str("Waiting"), IntV(13000), IntV(10000),
               Num(8, 100), NewDate)>>,
     <<MkOrder(Str("B"), Str("Sell"), Str("Waiting"), IntV(9000), IntV(10000),
               Num(8, 100), NewDate)>>}

Book(sell) ==
    <<MkOrder(Str("A"), Str("Buy"), Str("Waiting"), IntV(10000), IntV(10000),
              Num(8, 100), NewDate),
      MkOrder(Str("A"), Str("Sell"), Str("Waiting"), IntV(sell), IntV(10000),
              Num(8, 100), NewDate)>>

AssetArgs == {Str("A"), Str("B"), Str("C")}

NoCall == [op |-> "none", args |-> << >>, ret |-> NoneV, aux |-> << >>]

MaxFeed == 2     \* longest order list a fetch_orders call returns

\* an order as the API serves it, with every required field
FeedOrder ==
    [order_no |-> Str("1"), song_name |-> Str("A"), song_artist |-> Str("x"),
     song_category |-> Str("Copyright"), order_type |-> Str("Buy"),
     order_price |-> IntV(9000), order_count |-> IntV(1),
     order_status |-> Str("Waiting"), order_royalty_rate |-> Num(8, 100),
     order_date |-> NewDate, recent_price |-> IntV(10000)]

\* served orders: well-formed ones, and ones that deviate in one field by a
\* missing or None value, a value out of range or a value of another type
FeedOrders ==
    {FeedOrder,
     With(FeedOrder, "order_no", Str("2")),
     With(FeedOrder, "order_status", Str("Matched")),
     With(FeedOrder, "url_link", Str("u")),
     Without(FeedOrder, "order_no"),
     With(FeedOrder, "song_name", NoneV),
     With(FeedOrder, "order_count", Str("x")),
     With(FeedOrder, "url_link", IntV(5)),
     With(FeedOrder, "order_price", IntV(0)),
     With(FeedOrder, "order_royalty_rate", IntV(-1)),
     With(FeedOrder, "order_type", Str("Hold")),
     With(FeedOrder, "order_status", Str("Open")),
     With(FeedOrder, "order_date", Str("bad")),
     With(FeedOrder, "order_date", Str("")),
     With(FeedOrder, "order_date", IntV(5)),
     With(FeedOrder, "order_price", Str("abc")),
     With(FeedOrder, "order_royalty_rate", Str("abc")),
     NoneV}

\* what a fetch_orders call returns: None after any failure, else the list
Responses ==
    {NoneV} \cup
    UNION {{ListV(l) : l \in [1..n -> FeedOrders]} : n \in 0..MaxFeed}

MaxCycles == 2   \* successful collection cycles between two daily resets
MaxDays == 1     \* daily resets

Order1 == FeedOrder
Order1Matched == With(FeedOrder, "order_status", Str("Matched"))
Order2 == With(FeedOrder, "order_no", Str("2"))
OrderNoId == With(FeedOrder, "order_no", Str(""))

\* what fetch_orders_with_retry hands to a collection cycle
CollectorFeeds ==
    {NoneV,
     ListV(<< >>),
     ListV(<<Order1>>),
     ListV(<<Order1Matched>>),
     ListV(<<Order2>>),
     ListV(<<Order1, Order2>>),
     ListV(<<Order1, Order1Matched>>),
     ListV(<<OrderNoId>>),
     ListV(<<Order1Matched, With(FeedOrder, "order_price", IntV(0))>>),
     ListV(<<Order1, With(FeedOrder, "order_price", Str("abc"))>>)}

MaxWaits == 1    \* times the clock advances between alert operations

\* minutes the clock advances by between two alert operations
WaitMinutes == {30, 24 * 60 + 1}

\* a dict without keys
EmptyDict == [k \in {} |-> NoneV]

\* the API client before its first call, DataCollector.__init__ and
\* AlertSystem.__init__
InitOther ==
    /\ cpc = "idle"
    /\ attempt = 0
    /\ fetchLog = << >>
    /\ slept = 0
    /\ fetched = NoneV
    /\ validated = NoneV
    /\ daily_orders = EmptyDict
    /\ collected = << >>
    /\ summaries = EmptyDict
    /\ today = 0
    /\ alert_history = EmptyDict
    /\ alerts = << >>
    /\ emitted = EmptyDict

----------------------------------------------------------------------------
(* direct calls of the engine's methods *)

CallSpreadRate ==
    /\ \E p \in PriceArgs, r \in PriceArgs :
          call' = [op |-> "calculate_spread_rate", args |-> <<p, r>>,
                   ret |-> calculate_spread_rate(engine, p, r), aux |-> << >>]
    /\ UNCHANGED <<engine, batchVars, otherVars>>

CallExpectedYield ==
    /\ \E roy \in RoyaltyArgs, p \in PriceArgs :
          call' = [op |-> "calculate_expected_yield", args |-> <<roy, p>>,
                   ret |-> calculate_expected_yield(engine, roy, p, NoneV),
                   aux |-> << >>]
    /\ UNCHANGED <<engine, batchVars, otherVars>>

\* calculate_expected_yield(roy, p, reference_price=ref)
CallExpectedYieldWith ==
    /\ \E roy \in RoyaltyArgs, p \in PriceArgs, ref \in RefArgs :
          call' = [op |-> "calculate_expected_yield", args |-> <<roy, p, ref>>,
                   ret |-> calculate_expected_yield(engine, roy, p, ref),
                   aux |-> << >>]
    /\ UNCHANGED <<engine, batchVars, otherVars>>

CallGenerateSignal ==
    /\ \E sr \in SpreadArgs, ls \in ScoreArgs :
          call' = [op |-> "generate_signal", args |-> <<sr, ls>>,
                   ret |-> generate_signal(engine, sr, ls), aux |-> << >>]
    /\ UNCHANGED <<engine, batchVars, otherVars>>

InitCalls ==
    /\ engine = NewEngine
    /\ call = NoCall
    /\ orders = << >>
    /\ now = StartClock
    /\ ticks = 0
    /\ pc = "idle"
    /\ results = << >>
    /\ nowLog = << >>
    /\ run = 0
    /\ prevResults = << >>
    /\ prevNowLog = << >>
    /\ InitOther

NextCalls ==
    \/ CallSpreadRate
    \/ CallExpectedYield
    \/ CallExpectedYieldWith
    \/ CallGenerateSignal

SpecCalls == InitCalls /\ [][NextCalls]_vars

----------------------------------------------------------------------------
(* calculate_batch_metrics *)

\* the clock advances between two steps of the program
Tick ==
    /\ ticks < MaxTicks
    /\ now' = now + 1
    /\ ticks' = ticks + 1
    /\ UNCHANGED <<engine, call, orders, pc, results, nowLog, run, prevResults,
                   prevNowLog, otherVars>>

\* calculate_batch_metrics(orders) is called: results = []
StartBatch ==
    /\ pc \in {"idle", "done"}
    /\ run < MaxRuns
    /\ pc' = "loop"
    /\ run' = run + 1
    /\ prevResults' = results
    /\ prevNowLog' = nowLog
    /\ results' = << >>
    /\ nowLog' = << >>
    /\ UNCHANGED <<engine, call, orders, now, ticks, otherVars>>

\* one iteration of the for loop of lines 498-500
BatchStep ==
    /\ pc = "loop"
    /\ Len(results) < Len(orders)
    /\ LET i == Len(results) + 1
           order == orders[i]
           result == calculate_order_metrics(engine, order, orders, now)
       IN  /\ results' = Append(results, result)
           /\ orders' = InputAfterOrder(orders, i, result)
           /\ engine' = EngineAfterOrder(engine, order)
    /\ nowLog' = Append(nowLog, now)
    /\ UNCHANGED <<call, now, ticks, pc, run, prevResults, prevNowLog,
                   otherVars>>

\* return results
BatchReturn ==
    /\ pc = "loop"
    /\ Len(results) = Len(orders)
    /\ pc' = "done"
    /\ UNCHANGED <<engine, call, orders, now, ticks, results, nowLog, run,
                   prevResults, prevNowLog, otherVars>>

Init ==
    /\ engine = NewEngine
    /\ call = NoCall
    /\ \E n \in 0..MaxOrders : \E l \in [1..n -> BatchOrders] :
          orders = Numbered(l)
    /\ now = StartClock
    /\ ticks = 0
    /\ pc = "idle"
    /\ results = << >>
    /\ nowLog = << >>
    /\ run = 0
    /\ prevResults = << >>
    /\ prevNowLog = << >>
    /\ InitOther

Next == StartBatch \/ BatchStep \/ BatchReturn \/ Tick

Spec == Init /\ [][Next]_vars


----------------------------------------------------------------------------
(* direct calls of calculate_liquidity_score on an order list *)

\* the three sub-scores of a call that reaches lines 109-115
SubScores(self, all_orders, song_name, clock) ==
    IF \E i \in 1..Len(all_orders) : ~IsDict(all_orders[i]) THEN << >>
    ELSE LET song_orders == SongOrders(all_orders, song_name)
         IN  IF Len(song_orders) = 0 THEN << >>
             ELSE <<_calculate_spread_score(self, song_orders),
                    _calculate_depth_score(self, song_orders),
                    _calculate_frequency_score(self, song_orders, clock)>>

\* args holds the song_name passed and the time datetime.now() returned
CallLiquidityScore ==
    /\ \E song \in AssetArgs :
          call' = [op |-> "calculate_liquidity_score",
                   args |-> <<song, IntV(now)>>,
                   ret |-> calculate_liquidity_score(engine, orders, song, now),
                   aux |-> SubScores(engine, orders, song, now)]
    /\ UNCHANGED <<engine, batchVars, otherVars>>

InitLiquidity ==
    /\ engine = NewEngine
    /\ call = NoCall
    /\ \/ orders = << >>
       \/ \E o \in LiqOrders, n \in Copies, tail \in Tails :
             orders = Rep(o, n) \o tail
       \/ \E sell \in BookSells, extra \in BookExtras :
             orders = Book(sell) \o extra
    /\ now = StartClock
    /\ ticks = 0
    /\ pc = "idle"
    /\ results = << >>
    /\ nowLog = << >>
    /\ run = 0
    /\ prevResults = << >>
    /\ prevNowLog = << >>
    /\ InitOther

NextLiquidity == CallLiquidityScore \/ Tick

SpecLiquidity == InitLiquidity /\ [][NextLiquidity]_vars

----------------------------------------------------------------------------
(* get_validated_orders of the API client *)

\* get_validated_orders is called: fetch_orders_with_retry enters its loop
StartGet ==
    /\ cpc \in {"idle", "returned"}
    /\ cpc' = "loop"
    /\ attempt' = 0
    /\ fetchLog' = << >>
    /\ slept' = 0
    /\ fetched' = NoneV
    /\ validated' = NoneV
    /\ UNCHANGED <<engine, call, batchVars, collectorVars, alertVars>>

\* one iteration of the loop of lines 115-124 up to its return or sleep
FetchOrders ==
    /\ cpc = "loop"
    /\ attempt < API_RETRY_COUNT
    /\ \E response \in Responses :
          /\ fetchLog' = Append(fetchLog, response)
          /\ IF ~IsNone(response)
             THEN /\ fetched' = response
                  /\ cpc' = "fetched"
                  /\ attempt' = attempt
             ELSE /\ fetched' = fetched
                  /\ IF SleepsAfter(attempt)
                     THEN cpc' = "sleep" /\ attempt' = attempt
                     ELSE cpc' = "loop" /\ attempt' = attempt + 1
    /\ UNCHANGED <<engine, call, batchVars, slept, validated, collectorVars,
                   alertVars>>

\* time.sleep(API_RETRY_DELAY), then the next iteration
Sleep ==
    /\ cpc = "sleep"
    /\ slept' = slept + API_RETRY_DELAY
    /\ attempt' = attempt + 1
    /\ cpc' = "loop"
    /\ UNCHANGED <<engine, call, batchVars, fetchLog, fetched, validated,
                   collectorVars, alertVars>>

\* the loop is exhausted: return None (lines 126-127)
GiveUp ==
    /\ cpc = "loop"
    /\ attempt >= API_RETRY_COUNT
    /\ fetched' = NoneV
    /\ cpc' = "fetched"
    /\ UNCHANGED <<engine, call, batchVars, attempt, fetchLog, slept, validated,
                   collectorVars, alertVars>>

\* lines 167-177 of get_validated_orders
ValidateFetched ==
    /\ cpc = "fetched"
    /\ validated' = IF IsNone(fetched) THEN NoneV ELSE ValidatedResult(fetched)
    /\ cpc' = "returned"
    /\ UNCHANGED <<engine, call, batchVars, attempt, fetchLog, slept, fetched,
                   collectorVars, alertVars>>

InitClient ==
    /\ engine = NewEngine
    /\ call = NoCall
    /\ orders = << >>
    /\ now = StartClock
    /\ ticks = 0
    /\ pc = "idle"
    /\ results = << >>
    /\ nowLog = << >>
    /\ run = 0
    /\ prevResults = << >>
    /\ prevNowLog = << >>
    /\ InitOther

NextClient == StartGet \/ FetchOrders \/ Sleep \/ GiveUp \/ ValidateFetched

SpecClient == InitClient /\ [][NextClient]_vars

\* The client is a sequential program: a call that has started keeps
\* executing its next statement (fetch_orders returns within API_TIMEOUT).
SpecClientFair == SpecClient /\ WF_vars(NextClient)

----------------------------------------------------------------------------
(* the data collector (src/collector/data_collector.py) *)

\* d[k] = v
SetItem(d, k, v) == [j \in DOMAIN d \cup {k} |-> IF j = k THEN v ELSE d[j]]

\* lines 90-94: the loop over the orders of one cycle
RECURSIVE _accumulate_daily_orders(_, _)
_accumulate_daily_orders(daily, os) ==
    IF os = << >> THEN daily
    ELSE LET order == Head(os)
             order_no == Get(order, "order_no")
         IN  _accumulate_daily_orders(
                 IF Truthy(order_no) THEN SetItem(daily, order_no, order)
                 ELSE daily,
                 Tail(os))

\* save_daily_summary (lines 119-139); saved is whether save_json succeeded
SummariesAfterSave(saved) ==
    IF daily_orders = EmptyDict THEN summaries
    ELSE IF saved THEN SetItem(summaries, today, daily_orders)
    ELSE summaries

\* collect_data (lines 41-81): one cycle, with what the API client fetched
\* and whether save_json wrote the cycle's file
CollectData ==
    /\ Len(collected) < MaxCycles
    /\ \E feed \in CollectorFeeds, saved \in BOOLEAN :
          LET got == IF IsNone(feed) THEN NoneV ELSE ValidatedResult(feed)
              success == IsList(got) /\ got.items # << >> /\ saved
          IN  /\ daily_orders' =
                    IF success
                    THEN _accumulate_daily_orders(daily_orders, got.items)
                    ELSE daily_orders
              /\ collected' =
                    IF success THEN Append(collected, got.items) ELSE collected
    /\ UNCHANGED <<engine, call, batchVars, clientVars, summaries, today,
                   alertVars>>

\* the scheduled save_daily_summary
SaveDailySummary ==
    /\ \E saved \in BOOLEAN : summaries' = SummariesAfterSave(saved)
    /\ UNCHANGED <<engine, call, batchVars, clientVars, daily_orders,
                   collected, today, alertVars>>

\* _reset_daily_data (lines 212-229) at midnight; the day's directory is
\* created as it was in __init__
ResetDailyData ==
    /\ today < MaxDays
    /\ \E saved \in BOOLEAN : summaries' = SummariesAfterSave(saved)
    /\ today' = today + 1
    /\ daily_orders' = EmptyDict
    /\ collected' = << >>
    /\ UNCHANGED <<engine, call, batchVars, clientVars, alertVars>>

NextCollector == CollectData \/ SaveDailySummary \/ ResetDailyData

SpecCollector == InitClient /\ [][NextCollector]_vars

----------------------------------------------------------------------------
(* the alert system (src/reporter/alert_system.py) *)

ALERT_PREMIUM_THRESHOLD == IntV(3)
ALERT_YIELD_CHANGE == IntV(2)
ALERT_TIME_WINDOW == IntV(10)

\* timedelta(hours=1) of line 226, in minutes
DuplicateMinutes == 60

\* clear_history's default hours=24, in minutes
RetentionMinutes == 24 * 60

\* the field _check_premium_alerts reads the deviation from (line 89)
PremiumField == "premium"

\* abs(v) of a number
NumAbs(v) == [v EXCEPT !.n = Abs(v.n)]

\* f"{v}" of an order_no
PyFormat(v) ==
    CASE v.t = "str" -> v.s
      [] v.t = "none" -> "None"
      [] OTHER -> ToString(v.n)

\* key = f"{order_no}_{alert_type}"
AlertKey(order_no, alert_type) == PyFormat(order_no) \o "_" \o alert_type

\* lines 220-229
_is_duplicate_alert(history, order_no, alert_type, clock) ==
    LET key == AlertKey(order_no, alert_type)
    IN  /\ key \in DOMAIN history
        /\ clock - history[key] < DuplicateMinutes

\* lines 239-240
_add_to_history(history, order_no, alert_type, clock) ==
    SetItem(history, AlertKey(order_no, alert_type), clock)

\* the cutoff of clear_history with hours=0
ClearCutoff_Now(clock) == clock

\* cutoff_time of clear_history (line 372)
ClearCutoff(clock) == clock - RetentionMinutes

\* lines 374-380
clear_history(history, clock) ==
    [key \in {k \in DOMAIN history : ~(history[k] < ClearCutoff(clock))} |->
        history[key]]

\* The state a check carries through its loops: the history, the alerts
\* built so far, and the exception that has left the method, if any.
Checking(history) == [history |-> history, out |-> << >>, exc |-> NoneV]

\* an alert dict (its message is not modelled)
Alert(type, severity, order, clock) ==
    [type |-> type, severity |-> severity, order |-> order, timestamp |-> clock]

\* the alert is appended and its key recorded, unless it is a duplicate
Emit(st, type, severity, order, clock) ==
    LET order_no == Get(order, "order_no")
    IN  IF _is_duplicate_alert(st.history, order_no, type, clock) THEN st
        ELSE [st EXCEPT
                 !.out = Append(st.out, Alert(type, severity, order, clock)),
                 !.history = _add_to_history(st.history, order_no, type, clock)]

\* lines 84-106: one order of _check_premium_alerts
PremiumStep(st, order, clock) ==
    IF Get(order, "order_status") # Str("Waiting") THEN st
    ELSE LET premium == Get(order, PremiumField)
         IN  IF IsNone(premium) THEN st
             ELSE IF ~IsNum(premium) THEN [st EXCEPT !.exc = Exc("TypeError")]
             ELSE IF NumLt(ALERT_PREMIUM_THRESHOLD, NumAbs(premium))
             THEN Emit(st, "premium",
                       IF NumLt(IntV(5), NumAbs(premium)) THEN "high"
                       ELSE "medium",
                       order, clock)
             ELSE st

\* prev_dict of line 129: the last previous order of each order_no
PrevOrder(previous_orders, order_no) ==
    LET idx == {i \in 1..Len(previous_orders) :
                   Get(previous_orders[i], "order_no") = order_no}
    IN  IF idx = {} THEN NoneV
        ELSE previous_orders[CHOOSE i \in idx : \A j \in idx : j <= i]

\* lines 131-166: one order of _check_yield_change_alerts
YieldStep(st, order, previous_orders, clock) ==
    LET prev_order == PrevOrder(previous_orders, Get(order, "order_no"))
    IN  IF ~IsDict(prev_order) THEN st
        ELSE LET current_yield == Get(order, "normalized_yield")
                 prev_yield == Get(prev_order, "normalized_yield")
                 diff == PySub(current_yield, prev_yield)
                 order_time == strptime(safe_get(order, "order_date", Str("")))
                 prev_time == strptime(safe_get(prev_order, "order_date", Str("")))
             IN  IF IsNone(current_yield) \/ IsNone(prev_yield) THEN st
                 ELSE IF IsExc(diff) THEN [st EXCEPT !.exc = diff]
                 ELSE IF ~NumLt(ALERT_YIELD_CHANGE, NumAbs(diff)) THEN st
                 ELSE IF IsExc(order_time) THEN [st EXCEPT !.exc = order_time]
                 ELSE IF IsExc(prev_time) THEN [st EXCEPT !.exc = prev_time]
                 ELSE IF NumLe(PySub(order_time, prev_time), ALERT_TIME_WINDOW)
                 THEN Emit(st, "yield_change", "high", order, clock)
                 ELSE st

\* severity_map of lines 190-194
SignalSeverity(signal) ==
    CASE signal = Str("Caution") -> "high"
      [] signal = Str("Undervalued") -> "medium"
      [] OTHER -> "low"

\* lines 185-206: one order of _check_signal_alerts
SignalStep(st, order, clock) ==
    LET signal == safe_get(order, "signal", Str(""))
    IN  IF signal \in {Str("Caution"), Str("Undervalued"), Str("Overvalued")}
        THEN Emit(st, "signal", SignalSeverity(signal), order, clock)
        ELSE st

\* the three loops; an exception leaves the loop and the method
RECURSIVE _check_premium_alerts(_, _, _)
_check_premium_alerts(st, os, clock) ==
    IF os = << >> \/ IsExc(st.exc) THEN st
    ELSE _check_premium_alerts(PremiumStep(st, Head(os), clock), Tail(os), clock)

RECURSIVE _check_yield_change_alerts(_, _, _, _)
_check_yield_change_alerts(st, os, previous_orders, clock) ==
    IF os = << >> \/ IsExc(st.exc) THEN st
    ELSE _check_yield_change_alerts(
             YieldStep(st, Head(os), previous_orders, clock), Tail(os),
             previous_orders, clock)

RECURSIVE _check_signal_alerts(_, _, _)
_check_signal_alerts(st, os, clock) ==
    IF os = << >> \/ IsExc(st.exc) THEN st
    ELSE _check_signal_alerts(SignalStep(st, Head(os), clock), Tail(os), clock)

\* check_alerts (lines 32-68): the history it leaves, the alerts of the
\* three checks in order, and the exception that left it, if any
check_alerts(history, os, previous_orders, clock) ==
    LET premium == _check_premium_alerts(Checking(history), os, clock)
        yield == IF IsList(previous_orders) /\ previous_orders.items # << >>
                 THEN _check_yield_change_alerts(premium, os,
                                                 previous_orders.items, clock)
                 ELSE premium
    IN  _check_signal_alerts(yield, os, clock)

\* calculate_batch_metrics at one clock value
EnrichedBatch(self, os, clock) ==
    [i \in 1..Len(os) |-> calculate_order_metrics(self, os[i], os, clock)]

\* a waiting order quoted 20% above its recent price, and the same order
\* as the engine returns it
Quoted == With(FeedOrder, "order_price", IntV(12000))
QuotedEnriched == EnrichedBatch(NewEngine, <<Quoted>>, StartClock)[1]

\* an order as the alerting module expects it
AlertOrder(order_no, status, premium) ==
    [order_no |-> order_no, song_name |-> Str("A"), order_status |-> status,
     premium |-> premium, order_date |-> DateStr(10)]

\* the arguments of a check_alerts call
AlertCalls ==
    {[orders |-> os, previous_orders |-> NoneV] :
        os \in {<<QuotedEnriched>>,
                 <<QuotedEnriched, QuotedEnriched>>,
                 <<AlertOrder(Str("1"), Str("Waiting"), IntV(4))>>,
                 <<AlertOrder(Str("1"), Str("Waiting"), IntV(-6)),
                   AlertOrder(Str("1"), Str("Waiting"), IntV(4))>>,
                 <<AlertOrder(Str("2"), Str("Matched"), IntV(9)),
                   With(AlertOrder(Str("2"), Str("Waiting"), IntV(3)),
                        "signal", Str("Undervalued"))>>,
                 <<AlertOrder(Str("1"), Str("Waiting"), IntV(4)),
                   AlertOrder(Str("2"), Str("Waiting"), Str("x"))>>}}
    \cup
    {[orders |-> <<With(AlertOrder(Str("1"), Str("Waiting"), NoneV),
                        "normalized_yield", IntV(8))>>,
      previous_orders |-> ListV(<<prev>>)] :
        prev \in {With(With(AlertOrder(Str("1"), Str("Waiting"), NoneV),
                            "normalized_yield", IntV(5)),
                       "order_date", date) :
                      date \in {DateStr(5), Str("bad")}}}

\* the times of the alerts returned so far, with those of out added
RECURSIVE Emitted(_, _, _)
Emitted(times, out, clock) ==
    IF out = << >> THEN times
    ELSE LET k == [order_no |-> Get(Head(out).order, "order_no"),
                   type |-> Head(out).type]
             sofar == IF k \in DOMAIN times THEN times[k] ELSE << >>
         IN  Emitted(SetItem(times, k, Append(sofar, clock)), Tail(out), clock)

\* one check_alerts call; the clock is read once for the whole call
CheckAlerts ==
    /\ \E c \in AlertCalls :
          LET st == check_alerts(alert_history, c.orders, c.previous_orders, now)
              ret == IF IsExc(st.exc) THEN st.exc ELSE ListV(st.out)
          IN  /\ alert_history' = st.history
              /\ alerts' = ret
              /\ emitted' = IF IsExc(st.exc) THEN emitted
                             ELSE Emitted(emitted, st.out, now)
              /\ call' = [op |-> "check_alerts",
                          args |-> <<ListV(c.orders), c.previous_orders>>,
                          ret |-> ret, aux |-> <<alert_history = EmptyDict>>]
    /\ UNCHANGED <<engine, batchVars, clientVars, collectorVars>>

\* clear_history() with its default argument
ClearHistory ==
    /\ alert_history' = clear_history(alert_history, now)
    /\ UNCHANGED <<engine, call, batchVars, clientVars, collectorVars, alerts,
                   emitted>>

\* time passes between two operations on the alert system
AlertWait ==
    /\ ticks < MaxWaits
    /\ \E d \in WaitMinutes : now' = now + d
    /\ ticks' = ticks + 1
    /\ UNCHANGED <<engine, call, orders, pc, results, nowLog, run, prevResults,
                   prevNowLog, otherVars>>

NextAlerts == CheckAlerts \/ ClearHistory \/ AlertWait

SpecAlerts == InitClient /\ [][NextAlerts]_vars

----------------------------------------------------------------------------
(* properties of the direct calls, checked under SpecCalls *)

\* ret is a number with at most two decimals that lies within half a
\* hundredth of the exact quotient exactN / exactD
IsRoundedTo2(ret, exactN, exactD) ==
    /\ IsNum(ret)
    /\ 100 % ret.d = 0
    /\ 2 * Abs(ret.n * (100 \div ret.d) * exactD - exactN * 100) <= Abs(exactD)

C6_ExpectedYieldContract ==
    (call.op = "calculate_expected_yield" /\ Len(call.args) = 2) =>
        LET roy == call.args[1]
            p == call.args[2]
        IN  /\ (IsNum(roy) /\ IsNum(p)) =>
                  /\ IsNone(call.ret) <=> p.n = 0
                  /\ p.n # 0 =>
                        IsRoundedTo2(call.ret, roy.n * 10000 * p.d * 100,
                                     roy.d * p.n)
            /\ (~IsNum(roy) \/ ~IsNum(p)) => IsNone(call.ret)

\* calculate_expected_yield(0.08, 15000) has returned 5.33
C6_Witness ==
    /\ call.op = "calculate_expected_yield"
    /\ call.args = <<Num(8, 100), IntV(15000)>>
    /\ call.ret = Num(533, 100)


\* the closed set of signal strings
SignalSet ==
    {"Undervalued", "Overvalued", "HighLiquidity", "LowLiquidity",
     "Undervalued, HighLiquidity", "Undervalued, LowLiquidity",
     "Overvalued, HighLiquidity", "Caution", "Normal"}

\* x < k and x > k for a number x and an integer k
Below(x, k) == x.n < k * x.d
Above(x, k) == x.n > k * x.d

\* a generate_signal call whose arguments have the declared types
SignalCallTyped ==
    /\ call.op = "generate_signal"
    /\ IsNone(call.args[1]) \/ IsNum(call.args[1])
    /\ IsNum(call.args[2])

C9_InclusiveThresholds ==
    (SignalCallTyped /\ IsNum(call.args[1])) =>
        /\ ~Above(call.args[1], -10) =>
              call.ret.s \in {"Undervalued", "Undervalued, HighLiquidity",
                              "Undervalued, LowLiquidity"}
        /\ ~Below(call.args[1], 10) =>
              call.ret.s \in {"Overvalued", "Overvalued, HighLiquidity",
                              "Caution"}

\* C14: a reference_price passed to calculate_expected_yield is the one the
\* result is computed with: for numeric arguments and a non-zero order_price
\* the result is royalty * reference_price / order_price * 100 rounded to two
\* decimals, which is 0.0 for a reference_price of 0.
C14_ExplicitReferencePrice ==
    (call.op = "calculate_expected_yield" /\ Len(call.args) = 3) =>
        LET roy == call.args[1]
            p == call.args[2]
            ref == call.args[3]
        IN  (IsNum(roy) /\ IsNum(p) /\ IsNum(ref) /\ p.n # 0) =>
                IsRoundedTo2(call.ret, roy.n * ref.n * p.d * 100,
                             roy.d * ref.d * p.n)

\* C4: no exception leaves calculate_spread_rate, calculate_expected_yield
\* or generate_signal, whatever the arguments.
C4_NoExceptionEscapes == ~IsExc(call.ret)


----------------------------------------------------------------------------
(* properties of calculate_batch_metrics, checked under Spec *)

\* C1: calculate_batch_metrics returns a list as long as its input; the
\* record at position i comes from the input record at position i, and its
\* fields other than the metric fields are the input record's, unchanged.
C1_BatchTotality ==
    /\ Len(results) <= Len(orders)
    /\ pc = "done" => Len(results) = Len(orders)
    /\ \A i \in 1..Len(results) :
          IF IsDict(orders[i])
          THEN /\ IsDict(results[i])
               /\ DOMAIN results[i] \ MetricKeys = DOMAIN orders[i] \ MetricKeys
               /\ \A k \in DOMAIN orders[i] \ MetricKeys :
                     results[i][k] = orders[i][k]
          ELSE results[i] = orders[i]

\* a batch of two different orders has been returned, both enriched
C1_Witness ==
    /\ pc = "done"
    /\ Len(orders) = 2
    /\ IsDict(orders[1]) /\ IsDict(orders[2])
    /\ orders[1].order_price # orders[2].order_price
    /\ "signal" \in DOMAIN results[1]
    /\ "signal" \in DOMAIN results[2]

\* C3: every record calculate_batch_metrics returns carries spread_rate,
\* expected_yield, liquidity_score and signal, with liquidity_score a number.
C3_AlwaysEnriched ==
    \A i \in 1..Len(results) :
        IsDict(results[i]) =>
            /\ {"spread_rate", "expected_yield", "liquidity_score", "signal"}
                  \subseteq DOMAIN results[i]
            /\ IsNum(results[i].liquidity_score)

C12_AllOrNothing ==
    \A i \in 1..Len(results) :
        \/ results[i] = orders[i]
        \/ /\ IsDict(results[i])
           /\ DOMAIN results[i] = DOMAIN orders[i] \cup MetricKeys
           /\ \A k \in DOMAIN orders[i] : results[i][k] = orders[i][k]

\* a batch has returned one order unchanged, since its royalty rate is None,
\* next to an enriched order whose expected_yield is None
C12_Witness ==
    /\ pc = "done"
    /\ Len(orders) = 2
    /\ IsDict(orders[1]) /\ IsNone(Get(orders[1], "order_royalty_rate"))
    /\ results[1] = orders[1]
    /\ IsDict(results[2])
    /\ MetricKeys \subseteq DOMAIN results[2]
    /\ IsNone(results[2].expected_yield)

\* C20: the liquidity_score of every enriched record of a batch is
\* calculate_liquidity_score of the whole input list and the record's
\* song_name, at the clock value its iteration read; orders later in the
\* list count as much as earlier ones.
C20_WholeListContext ==
    \A i \in 1..Len(results) :
        (IsDict(results[i]) /\ "liquidity_score" \in DOMAIN results[i]) =>
            results[i].liquidity_score =
                calculate_liquidity_score(engine, orders,
                                          safe_get(orders[i], "song_name", Str("")),
                                          nowLog[i])

\* the first of two orders of one asset got a score that neither the order
\* alone nor the list up to it gives
C20_Witness ==
    /\ pc = "done"
    /\ Len(orders) = 2
    /\ IsDict(results[1]) /\ "liquidity_score" \in DOMAIN results[1]
    /\ IsDict(orders[2])
    /\ Get(orders[1], "song_name") = Get(orders[2], "song_name")
    /\ results[1].liquidity_score #
          calculate_liquidity_score(engine, <<orders[1]>>,
                                    safe_get(orders[1], "song_name", Str("")),
                                    nowLog[1])

\* C25: the enriched records of one batch that share a song_name carry the
\* same liquidity_score, also when the clock advances between two
\* iterations of the loop.
C25_SameScorePerAsset ==
    \A i, j \in 1..Len(results) :
        (/\ IsDict(results[i]) /\ "liquidity_score" \in DOMAIN results[i]
         /\ IsDict(results[j]) /\ "liquidity_score" \in DOMAIN results[j]
         /\ Get(results[i], "song_name") = Get(results[j], "song_name")) =>
            results[i].liquidity_score = results[j].liquidity_score

\* C28: in a batch of dicts the orders selected for a record's asset contain
\* the record itself, so the selection is never empty; the asset name of a
\* record without song_name key is the empty string.
C28_OwnContext ==
    (\A k \in 1..Len(orders) : IsDict(orders[k])) =>
        \A i \in 1..Len(results) :
            LET song_orders ==
                    SongOrders(orders, safe_get(orders[i], "song_name", Str("")))
            IN  \E j \in 1..Len(song_orders) : song_orders[j] = orders[i]

----------------------------------------------------------------------------
(* properties of calculate_liquidity_score, checked under SpecLiquidity *)

\* a number between 0 and 100
InScoreRange(v) == IsNum(v) /\ v.d > 0 /\ 0 <= v.n /\ v.n <= 100 * v.d

\* C2: calculate_liquidity_score returns a value in [0,100] for every order
\* list and asset name, and each sub-score it computes is in [0,100].
C2_ScoresInRange ==
    call.op = "calculate_liquidity_score" =>
        /\ InScoreRange(call.ret)
        /\ \A i \in 1..Len(call.aux) : InScoreRange(call.aux[i])

\* a call has computed a spread sub-score of 0 from a wide spread, next to
\* a positive depth sub-score
C2_Witness ==
    /\ call.op = "calculate_liquidity_score"
    /\ Len(call.aux) = 3
    /\ call.aux[1] = IntV(0)
    /\ call.aux[2] # IntV(0)
    /\ call.ret # IntV(0)

\* a calculate_liquidity_score call that has computed its three sub-scores
LiquidityCallScored ==
    call.op = "calculate_liquidity_score" /\ Len(call.aux) = 3

\* positions of the dicts of the list whose song_name is the one asked for
AssetIdx ==
    {i \in 1..Len(orders) :
        IsDict(orders[i]) /\ Get(orders[i], "song_name") = call.args[1]}

\* those of them that are Waiting, and the Buy and Sell orders among these
WaitingIdx == {i \in AssetIdx : Get(orders[i], "order_status") = Str("Waiting")}
BuyIdx == {i \in WaitingIdx : Get(orders[i], "order_type") = Str("Buy")}
SellIdx == {i \in WaitingIdx : Get(orders[i], "order_type") = Str("Sell")}

\* every waiting Buy and Sell of the asset has an integer price, the best
\* Buy a positive one
BookPriced ==
    /\ BuyIdx # {} /\ SellIdx # {}
    /\ \A i \in BuyIdx \cup SellIdx :
          IsNum(Get(orders[i], "order_price")) /\ orders[i].order_price.d = 1
    /\ \E i \in BuyIdx : orders[i].order_price.n > 0

MaxBuy == CHOOSE m \in {orders[i].order_price.n : i \in BuyIdx} :
              \A i \in BuyIdx : orders[i].order_price.n <= m
MinSell == CHOOSE m \in {orders[i].order_price.n : i \in SellIdx} :
               \A i \in SellIdx : m <= orders[i].order_price.n

\* the reference spread score for best prices buy > 0 and sell, with
\* spread_pct = (sell - buy) / buy * 100
SpreadReference(buy, sell) ==
    LET gap == sell - buy
    IN  IF gap <= 0 THEN IntV(100)
        ELSE IF 100 * gap <= 5 * buy THEN Num(100 * buy - 500 * gap, buy)
        ELSE IF 100 * gap <= 10 * buy
             THEN Num(75 * buy - (500 * gap - 25 * buy), buy)
        ELSE IF 100 * gap <= 20 * buy
             THEN Num(50 * buy - (500 * gap - 50 * buy), buy)
        ELSE IntV(0)

\* C15: the spread sub-score is 50 when the asset has no waiting Buy or no
\* waiting Sell; for positive integer prices it is the piecewise reference
\* of spread_pct = (min Sell - max Buy) / max Buy * 100 over the waiting
\* orders, which gives 75 at 5 per cent, 50 at 10 and 0 at 20.
C15_SpreadScoreReference ==
    LiquidityCallScored =>
        /\ (BuyIdx = {} \/ SellIdx = {}) => call.aux[1] = IntV(50)
        /\ BookPriced =>
              /\ call.aux[1] = SpreadReference(MaxBuy, MinSell)
              /\ 100 * (MinSell - MaxBuy) = 5 * MaxBuy => call.aux[1] = IntV(75)
              /\ 100 * (MinSell - MaxBuy) = 10 * MaxBuy => call.aux[1] = IntV(50)
              /\ 100 * (MinSell - MaxBuy) = 20 * MaxBuy => call.aux[1] = IntV(0)

\* a book with its best Sell 7.5 per cent above its best Buy, next to a
\* completed Sell below both, has got the spread score 62.5
C15_Witness ==
    /\ LiquidityCallScored
    /\ BookPriced
    /\ 1000 * (MinSell - MaxBuy) = 75 * MaxBuy
    /\ AssetIdx # WaitingIdx
    /\ call.aux[1] = Num(625, 10)

\* the reference depth score of n waiting orders
DepthReference(n) ==
    IF n = 0 THEN IntV(0)
    ELSE IF n <= 5 THEN IntV(10 * n)
    ELSE IF n <= 10 THEN IntV(50 + 5 * (n - 5))
    ELSE IF n <= 20 THEN Num(750 + 25 * (n - 10), 10)
    ELSE IntV(100)

\* C16: the depth sub-score is the piecewise reference of the number of the
\* asset's Waiting orders, whatever else the list holds: 50 for 5 of them,
\* 75 for 10 and 100 for 20.
C16_DepthScoreReference ==
    LiquidityCallScored =>
        LET n == Cardinality(WaitingIdx)
        IN  /\ call.aux[2] = DepthReference(n)
            /\ n = 5 => call.aux[2] = IntV(50)
            /\ n = 10 => call.aux[2] = IntV(75)
            /\ n = 20 => call.aux[2] = IntV(100)

\* ten waiting orders followed by a cancelled one have got the depth 75
C16_Witness ==
    /\ LiquidityCallScored
    /\ Cardinality(WaitingIdx) = 10
    /\ Cardinality(AssetIdx) = 11
    /\ call.aux[2] = IntV(75)

\* C13: calculate_liquidity_score returns 0.0 when no order of the list has
\* the song_name asked for, the empty list included.
C13_NoMatchIsZero ==
    (call.op = "calculate_liquidity_score" /\ AssetIdx = {}) =>
        call.ret = IntV(0)

\* a call for an asset that a list of orders of another asset does not hold
\* has returned 0.0
C13_Witness ==
    /\ call.op = "calculate_liquidity_score"
    /\ call.args[1] = Str("C")
    /\ Len(orders) >= 2
    /\ \A i \in 1..Len(orders) : IsDict(orders[i])
    /\ call.ret = IntV(0)

\* the reference frequency score of n recent orders
FrequencyReference(n) ==
    IF n = 0 THEN IntV(0)
    ELSE IF n <= 3 THEN Num(167 * n, 10)
    ELSE IF n <= 10 THEN Num(500 + 71 * (n - 3), 10)
    ELSE IntV(100)

\* the order has a date in the feed's format
WellDated(o) ==
    IsStr(Get(o, "order_date")) /\ Get(o, "order_date").s = DATE_FORMAT

\* C17: when all orders of the asset are well dated, the frequency
\* sub-score is the reference of the number of them dated within the last
\* 30 minutes, now - 30 min <= order_date <= now; older orders and orders
\* dated after now are not counted.
C17_WindowBothSides ==
    (LiquidityCallScored /\ \A i \in AssetIdx : WellDated(orders[i])) =>
        LET clock == call.args[2].n
            recent == {i \in AssetIdx :
                          /\ clock - RecentMinutes <= orders[i].order_date.n
                          /\ orders[i].order_date.n <= clock}
        IN  call.aux[3] = FrequencyReference(Cardinality(recent))

\* C18: orders whose order_date is malformed (no string, missing, empty or
\* unparseable) do not count and do not change the count of the others: the
\* frequency sub-score is the one of the asset's well dated orders alone.
C18_MalformedDateSkipped ==
    LiquidityCallScored =>
        call.aux[3] =
            _calculate_frequency_score(
                engine,
                SelectSeq(SongOrders(orders, call.args[1]), WellDated),
                call.args[2].n)

\* a waiting Buy or Sell of the asset has a price that is no number while
\* both sides of the book are present: max, min or the subtraction raises
SpreadFails ==
    /\ BuyIdx # {} /\ SellIdx # {}
    /\ \E i \in BuyIdx \cup SellIdx : ~IsNum(Get(orders[i], "order_price"))

\* an order of the asset has a date that is no string: strptime raises
\* TypeError
FrequencyFails ==
    \E i \in AssetIdx :
        Truthy(Get(orders[i], "order_date")) /\ ~IsStr(Get(orders[i], "order_date"))

\* ret is 0.4 * a + 0.3 * b + 0.3 * c rounded to one decimal
IsWeightedTotal(ret, a, b, c) ==
    LET exactN == 4 * a.n * b.d * c.d + 3 * b.n * a.d * c.d + 3 * c.n * a.d * b.d
        exactD == 10 * a.d * b.d * c.d
    IN  /\ IsNum(ret)
        /\ 10 % ret.d = 0
        /\ 2 * Abs(ret.n * (10 \div ret.d) * exactD - exactN * 10) <= exactD

\* C19: when the spread or the frequency computation fails inside, that
\* sub-score is 50 and the others are what they are without the failure
\* (depth from the waiting count, spread from the best prices, frequency
\* from the dated orders); the call returns their weighted total rounded to
\* one decimal, which is at least 15 and so never 0.
C19_NeutralSubScore ==
    (LiquidityCallScored /\ (SpreadFails \/ FrequencyFails)) =>
        /\ SpreadFails => call.aux[1] = IntV(50)
        /\ FrequencyFails => call.aux[3] = IntV(50)
        /\ call.aux[2] = DepthReference(Cardinality(WaitingIdx))
        /\ (~SpreadFails /\ BookPriced) =>
              call.aux[1] = SpreadReference(MaxBuy, MinSell)
        /\ ~FrequencyFails =>
              call.aux[3] =
                  FrequencyReference(Cardinality(
                      {i \in AssetIdx :
                          /\ WellDated(orders[i])
                          /\ orders[i].order_date.n >=
                                call.args[2].n - RecentMinutes}))
        /\ IsWeightedTotal(call.ret, call.aux[1], call.aux[2], call.aux[3])
        /\ call.ret.n >= 15 * call.ret.d

\* a Buy dated with a number and a Sell 5.6 per cent above it: frequency
\* is 50, spread and depth are computed, and the call returned 49.9
C19_Witness ==
    /\ LiquidityCallScored
    /\ FrequencyFails /\ ~SpreadFails /\ BookPriced
    /\ call.aux[3] = IntV(50)
    /\ call.aux[2] = IntV(20)
    /\ call.aux[1] # IntV(50)
    /\ call.ret = Num(499, 10)

\* the list holds dicts only
AllDicts == \A i \in 1..Len(orders) : IsDict(orders[i])

\* C26: for a list of order records, calculate_liquidity_score is strictly
\* positive whenever an order of the list has the song_name asked for; so
\* it is 0.0 only when none has.
C26_PositiveWhenMatched ==
    (call.op = "calculate_liquidity_score" /\ AllDicts) =>
        /\ AssetIdx # {} => (IsNum(call.ret) /\ call.ret.n > 0)
        /\ call.ret = IntV(0) => AssetIdx = {}

\* completed orders none of which counts as recent have depth 0 and
\* frequency 0, and the neutral spread score alone gives 20.0
C26_Witness ==
    /\ LiquidityCallScored
    /\ AssetIdx # {}
    /\ call.aux = <<IntV(50), IntV(0), IntV(0)>>
    /\ call.ret = IntV(20)

\* the list in reverse order
Reversed(l) == [i \in 1..Len(l) |-> l[Len(l) + 1 - i]]

\* the orders of the list that carry the song_name asked for
AssetOnly ==
    LET Carries(o) == Get(o, "song_name") = call.args[1]
    IN  SelectSeq(orders, Carries)

\* C29: for a list of order records the score of an asset is the score of
\* the list without the orders of other assets, and the score of the list
\* in reverse order, at the same clock value.
C29_OnlyOwnOrders ==
    (call.op = "calculate_liquidity_score" /\ AllDicts) =>
        /\ call.ret = calculate_liquidity_score(engine, AssetOnly, call.args[1],
                                                call.args[2].n)
        /\ call.ret = calculate_liquidity_score(engine, Reversed(orders),
                                                call.args[1], call.args[2].n)

\* a score has been computed for asset A from a list that begins with
\* orders of asset B and ends with an order of A
C29_Witness ==
    /\ LiquidityCallScored
    /\ call.args[1] = Str("A")
    /\ Len(orders) >= 3
    /\ Get(orders[1], "song_name") = Str("B")
    /\ Get(orders[Len(orders)], "song_name") = Str("A")
    /\ Len(AssetOnly) < Len(orders)
    /\ call.ret.n > 0

----------------------------------------------------------------------------
(* properties of the API client, checked under SpecClient(Fair) *)

\* what fetch_orders_with_retry has done when it returns
RetryOutcome ==
    /\ Len(fetchLog) >= 1
    /\ \A i \in 1..(Len(fetchLog) - 1) : IsNone(fetchLog[i])
    /\ fetched = fetchLog[Len(fetchLog)]
    /\ IsNone(fetched) => Len(fetchLog) = API_RETRY_COUNT
    /\ slept = API_RETRY_DELAY * (Len(fetchLog) - 1)

\* C24: fetch_orders_with_retry calls fetch_orders at most API_RETRY_COUNT
\* times and then returns: the first result that is not None, after which
\* no call is made, or None when all three calls returned None; it has
\* slept API_RETRY_DELAY once between two calls and not after the last.
C24_RetryTerminates ==
    /\ [](Len(fetchLog) <= API_RETRY_COUNT)
    /\ [](cpc \in {"fetched", "returned"} => RetryOutcome)
    /\ (cpc = "loop") ~> (cpc = "fetched")

\* three calls failed and None was returned after two sleeps
C24_Witness ==
    /\ cpc = "fetched"
    /\ fetchLog = <<NoneV, NoneV, NoneV>>
    /\ IsNone(fetched)
    /\ slept = 2 * API_RETRY_DELAY

\* the order has every required field with the declared type, a valid
\* order_type and order_status, a positive price, a royalty rate that is
\* not negative and a date in the feed's format
Conforms(o) ==
    /\ IsDict(o)
    /\ REQUIRED_FIELDS \subseteq DOMAIN o
    /\ \A f \in DOMAIN o \cap StrFields : IsStr(o[f])
    /\ \A f \in DOMAIN o \cap NumFields : IsNum(o[f])
    /\ o.order_type \in {Str("Buy"), Str("Sell")}
    /\ o.order_status \in {Str("Waiting"), Str("Completed"), Str("Cancelled"),
                           Str("Matched")}
    /\ o.order_price.n > 0
    /\ o.order_royalty_rate.n >= 0
    /\ o.order_date.s = DATE_FORMAT

\* C21: every order get_validated_orders returns has all required fields
\* with the declared types, a valid order_type and order_status, a price
\* above 0, a royalty rate of at least 0 and a date that parses.
C21_ValidatedConform ==
    (cpc = "returned" /\ IsList(validated)) =>
        \A i \in 1..Len(validated.items) : Conforms(validated.items[i])

\* C30: validate_order raises for no record, so get_validated_orders
\* raises for no fetched list and returns every conforming order of it.
C30_ValidationNeverRaises ==
    (cpc = "returned" /\ IsList(fetched)) =>
        /\ ~IsExc(validated)
        /\ \A i \in 1..Len(fetched.items) :
              Conforms(fetched.items[i]) =>
                  /\ IsList(validated)
                  /\ \E j \in 1..Len(validated.items) :
                        validated.items[j] = fetched.items[i]

----------------------------------------------------------------------------
(* properties of the data collector, checked under SpecCollector *)

\* the order_no values collected since the last reset
CollectedNos ==
    UNION {{collected[c][i].order_no : i \in 1..Len(collected[c])} :
              c \in 1..Len(collected)}

\* the most recent cycle that contained order_no k
LastCycleWith(k) ==
    CHOOSE c \in 1..Len(collected) :
        /\ \E i \in 1..Len(collected[c]) : collected[c][i].order_no = k
        /\ \A e \in (c + 1)..Len(collected) :
              \A i \in 1..Len(collected[e]) : collected[e][i].order_no # k

\* one entry per collected order_no, taken from the last cycle with it
OnePerOrderNo ==
    /\ DOMAIN daily_orders = CollectedNos
    /\ \A k \in CollectedNos :
          /\ daily_orders[k].order_no = k
          /\ \E i \in 1..Len(collected[LastCycleWith(k)]) :
                collected[LastCycleWith(k)][i] = daily_orders[k]

\* the keys grow within a day; the reset writes the summary and empties
KeysGrowUntilReset ==
    IF today' = today
    THEN DOMAIN daily_orders \subseteq DOMAIN daily_orders'
    ELSE /\ daily_orders' = EmptyDict
         /\ daily_orders # EmptyDict =>
               /\ today \in DOMAIN summaries'
               /\ summaries'[today] = daily_orders

\* C23: after successful collect_data cycles within a day daily_orders
\* holds exactly one entry per distinct order_no collected that day, the
\* snapshot of the most recent cycle that contained it; the keys only grow
\* until _reset_daily_data, which saves the summary and then empties it.
C23_LatestSnapshotPerOrderNo ==
    []OnePerOrderNo /\ [][KeysGrowUntilReset]_vars

----------------------------------------------------------------------------
(* properties of the alert system, checked under SpecAlerts *)

\* C22: of the alerts check_alerts calls return on one AlertSystem, two of
\* the same type for the same order_no are at least one hour apart: a call
\* repeated at once returns none of them again, and two records with one
\* order_no in a call give one alert per type.
C22_OneAlertPerHour ==
    \A k \in DOMAIN emitted :
        \A i, j \in 1..Len(emitted[k]) :
            i < j => emitted[k][j] - emitted[k][i] >= DuplicateMinutes

\* an alert was repeated an hour after the first one, and a call on the
\* same orders right afterwards returned nothing
C22_Witness ==
    /\ \E k \in DOMAIN emitted :
          /\ Len(emitted[k]) >= 2
          /\ emitted[k][Len(emitted[k])] = now
          /\ AlertKey(k.order_no, k.type) \in DOMAIN alert_history
    /\ call.op = "check_alerts"
    /\ ~call.aux[1]
    /\ call.ret = ListV(<< >>)

\* the deviation the engine computed for the order exceeds the threshold
DeviatesEnriched(o) ==
    /\ MetricKeys \subseteq DOMAIN o
    /\ o.order_status = Str("Waiting")
    /\ IsNum(o.spread_rate)
    /\ NumLt(ALERT_PREMIUM_THRESHOLD, NumAbs(o.spread_rate))

\* C27: the first check_alerts call on a batch enriched by
\* calculate_batch_metrics returns a premium alert for every Waiting order
\* of it whose spread rate exceeds ALERT_PREMIUM_THRESHOLD in absolute value.
C27_PremiumAlertForEnriched ==
    (call.op = "check_alerts" /\ call.aux[1]) =>
        \A i \in 1..Len(call.args[1].items) :
            DeviatesEnriched(call.args[1].items[i]) =>
                /\ IsList(call.ret)
                /\ \E a \in 1..Len(call.ret.items) :
                      /\ call.ret.items[a].type = "premium"
                      /\ call.ret.items[a].order = call.args[1].items[i]

====
